---- MODULE Spec2Model ----
(***************************************************************************)
(* Model of the event recogniser of soccer-event-recognition               *)
(* (src/event_recognition.py).  An episode is a sequence of frames, each   *)
(* frame 46 numbers: the (x, y) of 22 players then the (x, y) of the ball. *)
(* Lengths are integers in centimetres, so every threshold of the source   *)
(* (1.0 m, 1.5 m, 52.5 m, 9.16 m ...) is an exact integer and distances    *)
(* are compared by their squares.  Frames are numbered from 0 as in the    *)
(* source; the TLA+ sequence index of frame f is f + 1.                    *)
(***************************************************************************)
EXTENDS Integers, Sequences, FiniteSets, TLC

\* ------------------------------------------------------------------ bounds
\* Longest episode drawn by Init.
MaxLen == 3

\* Longest episode drawn by InitLong.
MaxLongLen == 7

\* Longest episode drawn by InitShot.
MaxShotLen == 8

\* Longest episode drawn by InitOut.
MaxOutLen == 4

\* Most events in a dictionary handed to compare_events.
MaxEvents == 2

\* Most find_events calls made in turn on one episode, each on a new
\* recognizer or all on the same one.
MaxRuns == 2

\* Most moves of an InitLong or InitShot episode on which the ball does not
\* keep its velocity (it rests, or turns across the pitch).
MaxKinks == 1

\* --------------------------------------------------------------- constants
VicinityThreshold == 100
GracePeriodPlayer == 5
GracePeriodBall == 1
MinFailedPassLength == 150
\* MinSpeedChangeFactor = 1.5 as the fraction 3 / 2
MinSpeedChangeFactorNum == 3
MinSpeedChangeFactorDen == 2
TrajectoryBack == 3
TrajectoryForward == 6
GoalLength == 732
\* GoalLength / 2 + 5.5
GoalAreaY == (GoalLength \div 2) + 550
GoalAreaX == 4700
PitchHalfLength == 5250
PitchHalfWidth == 3500
\* the "big number" get_closest_teammate gives prev_pwb (300.0 m)
BigDistance == 30000
NumPlayers == 22
\* the first index of the attacking team in get_closest_teammate
TeamSplit == 11

\* pi, and MinTrChangeAngle = math.pi / 8, in ten-thousandths of a radian
Pi4 == 31416

MinTrChangeAngle == Pi4 \div 8

\* GoalpostDistance, in centimetres
GoalpostDistance == 500

\* result_reporting.TimeWindow, in frames
TimeWindow == 3

\* Python's None, for a player index or a frame number
None == -1
\* detect_pass_shot returning None
NoEvent == [event |-> "None"]

Players == 0 .. (NumPlayers - 1)

\* ---------------------------------------------------------------- geometry
Abs(x) == IF x < 0 THEN -x ELSE x

Sq(x) == x * x

\* squared Euclidean norm of a - b  (np.linalg.norm, squared)
Dist2(a, b) == Sq(a[1] - b[1]) + Sq(a[2] - b[2])

RECURSIVE Gcd(_, _)
Gcd(a, b) == IF b = 0 THEN a ELSE Gcd(b, a % b)

is_same_team(p1, p2) == (p1 < 10 /\ p2 < 10) \/ (p1 > 10 /\ p2 > 10)

is_in_goal_area(object_xy) ==
    Abs(object_xy[1]) > GoalAreaX /\ Abs(object_xy[2]) < GoalAreaY

\* ---------------------------------------------------------- frame accessor
get_ball_coordinates(ep, frame) ==
    <<ep[frame + 1][2 * NumPlayers + 1], ep[frame + 1][2 * NumPlayers + 2]>>

get_player_coordinates(ep, player, frame) ==
    <<ep[frame + 1][2 * player + 1], ep[frame + 1][2 * player + 2]>>

\* squared distance of every player to ball_xy on a frame
get_distances_to_ball(ep, frame, ball_xy) ==
    [p \in Players |-> Dist2(get_player_coordinates(ep, p, frame), ball_xy)]

\* np.argmin over the indices lo..hi: the first index of a least value
RECURSIVE ArgMinScan(_, _, _, _)
ArgMinScan(d, i, hi, best) ==
    IF i > hi THEN best
    ELSE ArgMinScan(d, i + 1, hi, IF d[i] < d[best] THEN i ELSE best)

ArgMin(d, lo, hi) == ArgMinScan(d, lo + 1, hi, lo)

is_ball_faraway(ep, player, frame) ==
    Dist2(get_player_coordinates(ep, player, frame), get_ball_coordinates(ep, frame))
        > Sq(VicinityThreshold)

get_closest_player(ep, frame) ==
    LET ball_dist == get_distances_to_ball(ep, frame, get_ball_coordinates(ep, frame))
        closest_idx == ArgMin(ball_dist, 0, NumPlayers - 1)
    IN  IF ball_dist[closest_idx] > Sq(VicinityThreshold) THEN None ELSE closest_idx

\* the last index of a least value over lo..hi
RECURSIVE ArgMinLastScan(_, _, _, _)
ArgMinLastScan(d, i, hi, best) ==
    IF i > hi THEN best
    ELSE ArgMinLastScan(d, i + 1, hi, IF d[i] <= d[best] THEN i ELSE best)

\* mutant of get_closest_teammate: of equally close teammates the last one
get_closest_teammate_last_on_ties(ep, prev, frame, ball_xy) ==
    LET ball_dist == [get_distances_to_ball(ep, frame, ball_xy)
                          EXCEPT ![prev] = Sq(BigDistance)]
    IN  IF prev < TeamSplit
        THEN ArgMinLastScan(ball_dist, 1, TeamSplit - 1, 0)
        ELSE ArgMinLastScan(ball_dist, TeamSplit + 1, NumPlayers - 1, TeamSplit)

\* mutant of get_closest_teammate: prev_pwb's distance left as it is
get_closest_teammate_keeps_self(ep, prev, frame, ball_xy) ==
    LET ball_dist == get_distances_to_ball(ep, frame, ball_xy)
    IN  IF prev < TeamSplit
        THEN ArgMin(ball_dist, 0, TeamSplit - 1)
        ELSE ArgMin(ball_dist, TeamSplit, NumPlayers - 1)

get_closest_teammate(ep, prev, frame, ball_xy) ==
    LET ball_dist == [get_distances_to_ball(ep, frame, ball_xy)
                          EXCEPT ![prev] = Sq(BigDistance)]
    IN  IF prev < TeamSplit
        THEN ArgMin(ball_dist, 0, TeamSplit - 1)
        ELSE ArgMin(ball_dist, TeamSplit, NumPlayers - 1)

\* ------------------------------------------------------ trajectory analyzer
Max(a, b) == IF a > b THEN a ELSE b

Min(a, b) == IF a < b THEN a ELSE b

\* A ball speed is kept exact as <<d2, span>>: the squared distance travelled
\* and the number of frames, i.e. speed = sqrt(d2) / span.
calculate_ball_speed(ep, frame_a, frame_b) ==
    <<Dist2(get_ball_coordinates(ep, frame_b), get_ball_coordinates(ep, frame_a)),
      frame_b - frame_a>>

\* speed a < speed b
SpeedLess(a, b) == a[1] * Sq(b[2]) < b[1] * Sq(a[2])

\* 1 / (0.001 m)^2 in centimetres: speed < 0.001 m  <=>  StillInv2 * d2 < span^2
StillInv2 == 100

\* min_speed < 0.001, written without the product StillInv2 * d2
IsStill(s) == s[1] <= (Sq(s[2]) - 1) \div StillInv2

is_ball_speed_changed(ep, cf, prev_frame, next_frame) ==
    LET prev_speed == calculate_ball_speed(ep, prev_frame, cf)
        next_speed == calculate_ball_speed(ep, cf, next_frame)
        max_speed == IF SpeedLess(prev_speed, next_speed) THEN next_speed ELSE prev_speed
        min_speed == IF SpeedLess(prev_speed, next_speed) THEN prev_speed ELSE next_speed
    IN  IF IsStill(min_speed)
        THEN TRUE
        ELSE Sq(MinSpeedChangeFactorDen) * max_speed[1] * Sq(min_speed[2])
                 > Sq(MinSpeedChangeFactorNum) * min_speed[1] * Sq(max_speed[2])

\* abs(atan2(det, dot)) > pi / 8.  For dot > 0 this is |det| / dot > tan(pi/8)
\* = sqrt(2) - 1, i.e. (|det| + dot)^2 > 2 dot^2; the pair is first divided by
\* its gcd (the angle does not change).  For dot <= 0 the angle is at least
\* pi / 2, except atan2(0, 0) = 0.
AngleExceedsMinTrChange(det, dot) ==
    IF dot <= 0
    THEN ~(det = 0 /\ dot = 0)
    ELSE LET g == Gcd(Abs(det), dot)
             a == Abs(det) \div g
             b == dot \div g
         IN  Sq(a + b) > 2 * Sq(b)

is_ball_direction_changed(ep, cf, prev_frame, next_frame) ==
    LET ball_prev == get_ball_coordinates(ep, prev_frame)
        ball_curr == get_ball_coordinates(ep, cf)
        ball_next == get_ball_coordinates(ep, next_frame)
        pv == <<ball_prev[1] - ball_curr[1], ball_prev[2] - ball_curr[2]>>
        nv == <<ball_curr[1] - ball_next[1], ball_curr[2] - ball_next[2]>>
        det == pv[1] * nv[2] - pv[2] * nv[1]
        dot == pv[1] * nv[1] + pv[2] * nv[2]
    IN  AngleExceedsMinTrChange(det, dot)

\* mutant of is_possession_changed: the player's window as short as the ball's
is_possession_changed_ball_window(ep, cf, new_pwb) ==
    IF cf = Len(ep) - 1
    THEN TRUE
    ELSE LET prev_frame == Max(cf - GracePeriodBall, 0)
             next_frame == Min(cf + GracePeriodBall, Len(ep) - 1)
             furthest == Min(cf + GracePeriodBall, Len(ep) - 1)
         IN  \/ is_ball_speed_changed(ep, cf, prev_frame, next_frame)
             \/ is_ball_direction_changed(ep, cf, prev_frame, next_frame)
             \/ \A next \in cf .. furthest : ~is_ball_faraway(ep, new_pwb, next)

is_possession_changed(ep, cf, new_pwb) ==
    IF cf = Len(ep) - 1
    THEN TRUE
    ELSE LET prev_frame == Max(cf - GracePeriodBall, 0)
             next_frame == Min(cf + GracePeriodBall, Len(ep) - 1)
             furthest == Min(cf + GracePeriodPlayer, Len(ep) - 1)
         IN  \/ is_ball_speed_changed(ep, cf, prev_frame, next_frame)
             \/ is_ball_direction_changed(ep, cf, prev_frame, next_frame)
             \/ \A next \in cf .. furthest : ~is_ball_faraway(ep, new_pwb, next)

\* mutant of TrajectoryScale: prev_frame = max(1, frame - TrajectoryBack)
TrajectoryScale_back_to_one(cf) == cf - Max(1, cf - TrajectoryBack)

\* frame - prev_frame of get_ball_trajectory: the divisor of the velocity
TrajectoryScale(cf) == cf - Max(0, cf - TrajectoryBack)

\* The i-th extrapolated point, multiplied by TrajectoryScale(cf) to stay
\* in the integers: k * ball_curr - i * prev_dir.
TrajectoryPoint(ep, cf, i) ==
    LET k == TrajectoryScale(cf)
        ball_curr == get_ball_coordinates(ep, cf)
        ball_prev == get_ball_coordinates(ep, Max(0, cf - TrajectoryBack))
    IN  <<k * ball_curr[1] - i * (ball_prev[1] - ball_curr[1]),
          k * ball_curr[2] - i * (ball_prev[2] - ball_curr[2])>>

\* whether the (scaled) point has left the pitch
LeavesPitch(ep, cf, i) ==
    LET k == TrajectoryScale(cf)
        xy == TrajectoryPoint(ep, cf, i)
    IN  Abs(xy[1]) > PitchHalfLength * k \/ Abs(xy[2]) > PitchHalfWidth * k

\* The (scaled) points of get_ball_trajectory: at most TrajectoryForward of
\* them, none after the first one that leaves the pitch.
get_ball_trajectory(ep, cf) ==
    LET n == CHOOSE m \in 1 .. TrajectoryForward :
                 /\ \A i \in 1 .. (m - 1) : ~LeavesPitch(ep, cf, i)
                 /\ (m = TrajectoryForward \/ LeavesPitch(ep, cf, m))
    IN  [i \in 1 .. n |-> TrajectoryPoint(ep, cf, i)]

\* --------------------------------------------------------- event classifier
\* mutant of get_event: the target written as the acting player
get_event_player_is_target(event_type, target, event_frame, prev_pwb) ==
    IF event_type = "shot"
    THEN [frame |-> event_frame, event |-> event_type, player |-> target]
    ELSE [frame |-> event_frame, event |-> event_type, player |-> target,
          target |-> target]

\* get_event: the event, still carrying its 'frame' (the key it is stored under)
get_event(event_type, target, event_frame, prev_pwb) ==
    IF event_type = "shot"
    THEN [frame |-> event_frame, event |-> event_type, player |-> prev_pwb]
    ELSE [frame |-> event_frame, event |-> event_type, player |-> prev_pwb,
          target |-> target]

\* mutant of verify_failed_pass: <= for < in the MinFailedPassLength test
verify_failed_pass_inclusive(ep, cf, prev_pwb, event_frame, ball_xy) ==
    LET pwb_xy_prev == get_player_coordinates(ep, prev_pwb, event_frame)
        ball_dist2 == Dist2(pwb_xy_prev, ball_xy)
    IN  IF ball_dist2 <= Sq(MinFailedPassLength)
        THEN [frame |-> cf, event |-> "tackle"]
        ELSE get_event("failed_pass", get_closest_teammate(ep, prev_pwb, cf, ball_xy),
                       event_frame, prev_pwb)

verify_failed_pass(ep, cf, prev_pwb, event_frame, ball_xy) ==
    LET pwb_xy_prev == get_player_coordinates(ep, prev_pwb, event_frame)
        ball_dist2 == Dist2(pwb_xy_prev, ball_xy)
    IN  IF ball_dist2 < Sq(MinFailedPassLength)
        THEN [frame |-> cf, event |-> "tackle"]
        ELSE get_event("failed_pass", get_closest_teammate(ep, prev_pwb, cf, ball_xy),
                       event_frame, prev_pwb)

\* mutant of is_goalkeeper: only the defending team's goalkeeper
is_goalkeeper_zero_only(p) == p = 0

\* the goalkeepers' indices in detect_pass_shot and verify_shot
is_goalkeeper(p) == p = 0 \/ p = 11

\* mutant of verify_shot: the goalkeeper test forgotten
verify_shot_no_keeper_check(ep, cf, prev_pwb, event_frame, ball_xy) ==
    LET k == TrajectoryScale(cf)
        traj == get_ball_trajectory(ep, cf)
    IN  IF /\ is_in_goal_area(ball_xy)
           /\ \E i \in DOMAIN traj :
                 /\ Abs(traj[i][1]) >= PitchHalfLength * k
                 /\ Abs(traj[i][2]) < GoalAreaY * k
        THEN get_event("shot", None, event_frame, prev_pwb)
        ELSE verify_failed_pass(ep, cf, prev_pwb, event_frame, ball_xy)

\* mutant of verify_shot: the goal-area test forgotten
verify_shot_any_position(ep, cf, prev_pwb, event_frame, ball_xy) ==
    LET k == TrajectoryScale(cf)
        traj == get_ball_trajectory(ep, cf)
    IN  IF \E i \in DOMAIN traj :
              /\ Abs(traj[i][1]) >= PitchHalfLength * k
              /\ Abs(traj[i][2]) < GoalAreaY * k
              /\ ~is_goalkeeper(prev_pwb)
        THEN get_event("shot", None, event_frame, prev_pwb)
        ELSE verify_failed_pass(ep, cf, prev_pwb, event_frame, ball_xy)

verify_shot(ep, cf, prev_pwb, event_frame, ball_xy) ==
    LET k == TrajectoryScale(cf)
        traj == get_ball_trajectory(ep, cf)
    IN  IF /\ is_in_goal_area(ball_xy)
           /\ \E i \in DOMAIN traj :
                 /\ Abs(traj[i][1]) >= PitchHalfLength * k
                 /\ Abs(traj[i][2]) < GoalAreaY * k
                 /\ ~is_goalkeeper(prev_pwb)
        THEN get_event("shot", None, event_frame, prev_pwb)
        ELSE verify_failed_pass(ep, cf, prev_pwb, event_frame, ball_xy)

\* mutant of detect_pass_shot: self.pwb = None forgotten on the sideline branch
detect_pass_shot_keeps_pwb(ep, cf, pwb_, prev_pwb_, event_frame_) ==
    LET ball_xy == get_ball_coordinates(ep, cf)
        new_pwb == get_closest_player(ep, cf)
    IN  IF Abs(ball_xy[2]) > PitchHalfWidth
        THEN [ev |-> verify_failed_pass(ep, cf, prev_pwb_, event_frame_, ball_xy),
              pwb |-> pwb_]
        ELSE IF Abs(ball_xy[1]) > PitchHalfLength
        THEN [ev |-> IF Abs(ball_xy[2]) < GoalAreaY /\ ~is_goalkeeper(prev_pwb_)
                     THEN get_event("shot", None, event_frame_, prev_pwb_)
                     ELSE verify_failed_pass(ep, cf, prev_pwb_, event_frame_, ball_xy),
              pwb |-> None]
        ELSE IF new_pwb = None
        THEN [ev |-> NoEvent, pwb |-> pwb_]
        ELSE IF new_pwb = prev_pwb_
        THEN [ev |-> [frame |-> cf, event |-> "faraway", player |-> new_pwb],
              pwb |-> new_pwb]
        ELSE IF is_possession_changed(ep, cf, new_pwb)
        THEN [ev |-> IF ~is_same_team(prev_pwb_, new_pwb)
                     THEN verify_shot(ep, cf, prev_pwb_, event_frame_, ball_xy)
                     ELSE get_event("pass", new_pwb, event_frame_, prev_pwb_),
              pwb |-> new_pwb]
        ELSE [ev |-> NoEvent, pwb |-> pwb_]

\* detect_pass_shot: the event it returns (ev) and the pwb it leaves
detect_pass_shot(ep, cf, pwb_, prev_pwb_, event_frame_) ==
    LET ball_xy == get_ball_coordinates(ep, cf)
        new_pwb == get_closest_player(ep, cf)
    IN  IF Abs(ball_xy[2]) > PitchHalfWidth
        THEN [ev |-> verify_failed_pass(ep, cf, prev_pwb_, event_frame_, ball_xy),
              pwb |-> None]
        ELSE IF Abs(ball_xy[1]) > PitchHalfLength
        THEN [ev |-> IF Abs(ball_xy[2]) < GoalAreaY /\ ~is_goalkeeper(prev_pwb_)
                     THEN get_event("shot", None, event_frame_, prev_pwb_)
                     ELSE verify_failed_pass(ep, cf, prev_pwb_, event_frame_, ball_xy),
              pwb |-> None]
        ELSE IF new_pwb = None
        THEN [ev |-> NoEvent, pwb |-> pwb_]
        ELSE IF new_pwb = prev_pwb_
        THEN [ev |-> [frame |-> cf, event |-> "faraway", player |-> new_pwb],
              pwb |-> new_pwb]
        ELSE IF is_possession_changed(ep, cf, new_pwb)
        THEN [ev |-> IF ~is_same_team(prev_pwb_, new_pwb)
                     THEN verify_shot(ep, cf, prev_pwb_, event_frame_, ball_xy)
                     ELSE get_event("pass", new_pwb, event_frame_, prev_pwb_),
              pwb |-> new_pwb]
        ELSE [ev |-> NoEvent, pwb |-> pwb_]

\* mutant of find_possession_frame: the closest player taken as pwb however
\* far from the ball
find_possession_frame_any_distance(ep, cf, pwb_) ==
    IF cf < Len(ep)
    THEN <<cf + 1, ArgMin(get_distances_to_ball(ep, cf, get_ball_coordinates(ep, cf)),
                          0, NumPlayers - 1)>>
    ELSE <<cf, pwb_>>

\* find_possession_frame: <<current_frame, pwb>> when its loop ends
RECURSIVE find_possession_frame(_, _, _)
find_possession_frame(ep, cf, pwb_) ==
    IF cf < Len(ep)
    THEN LET pwb_idx == get_closest_player(ep, cf)
         IN  IF pwb_idx # None
             THEN <<cf + 1, pwb_idx>>
             ELSE find_possession_frame(ep, cf + 1, pwb_)
    ELSE <<cf, pwb_>>

\* the loop of find_ball_faraway: the first frame from cf on at which the ball
\* is far from pwb_, or Len(ep) when there is none
RECURSIVE faraway_frame(_, _, _)
faraway_frame(ep, cf, pwb_) ==
    IF cf < Len(ep)
    THEN IF is_ball_faraway(ep, pwb_, cf) THEN cf ELSE faraway_frame(ep, cf + 1, pwb_)
    ELSE cf

\* mutant of find_ball_faraway: event_frame set only while it is still None
find_ball_faraway_keeps_event_frame(ep, cf, pwb_, prev_pwb_, event_frame_) ==
    LET found == IF pwb_ = None THEN find_possession_frame(ep, cf, pwb_) ELSE <<cf, pwb_>>
        far == faraway_frame(ep, found[1], found[2])
    IN  IF far < Len(ep)
        THEN [current_frame |-> far, pwb |-> found[2], prev_pwb |-> found[2],
              event_frame |-> IF event_frame_ = None THEN far - 1 ELSE event_frame_]
        ELSE [current_frame |-> far, pwb |-> found[2], prev_pwb |-> prev_pwb_,
              event_frame |-> event_frame_]

\* mutant of find_ball_faraway: event_frame set to the faraway frame itself
find_ball_faraway_event_at_faraway(ep, cf, pwb_, prev_pwb_, event_frame_) ==
    LET found == IF pwb_ = None THEN find_possession_frame(ep, cf, pwb_) ELSE <<cf, pwb_>>
        far == faraway_frame(ep, found[1], found[2])
    IN  IF far < Len(ep)
        THEN [current_frame |-> far, pwb |-> found[2], prev_pwb |-> found[2],
              event_frame |-> far]
        ELSE [current_frame |-> far, pwb |-> found[2], prev_pwb |-> prev_pwb_,
              event_frame |-> event_frame_]

\* mutant of find_ball_faraway: prev_pwb set only while it is still None
find_ball_faraway_keeps_prev_pwb(ep, cf, pwb_, prev_pwb_, event_frame_) ==
    LET found == IF pwb_ = None THEN find_possession_frame(ep, cf, pwb_) ELSE <<cf, pwb_>>
        far == faraway_frame(ep, found[1], found[2])
    IN  IF far < Len(ep)
        THEN [current_frame |-> far, pwb |-> found[2],
              prev_pwb |-> IF prev_pwb_ = None THEN found[2] ELSE prev_pwb_,
              event_frame |-> far - 1]
        ELSE [current_frame |-> far, pwb |-> found[2], prev_pwb |-> prev_pwb_,
              event_frame |-> event_frame_]

\* find_ball_faraway: the fields it leaves
find_ball_faraway(ep, cf, pwb_, prev_pwb_, event_frame_) ==
    LET found == IF pwb_ = None THEN find_possession_frame(ep, cf, pwb_) ELSE <<cf, pwb_>>
        far == faraway_frame(ep, found[1], found[2])
    IN  IF far < Len(ep)
        THEN [current_frame |-> far, pwb |-> found[2], prev_pwb |-> found[2],
              event_frame |-> far - 1]
        ELSE [current_frame |-> far, pwb |-> found[2], prev_pwb |-> prev_pwb_,
              event_frame |-> event_frame_]

\* str(ev_frame), the key of the event map
str(n) == ToString(n)

\* int(key) for the keys the map can hold
int(key) == CHOOSE n \in -1 .. (MaxLen + 1) : str(n) = key

\* events[key] = value on a dict kept as the sequence of its items in
\* insertion order: an existing key keeps its place and takes the new value
dict_set(d, key, value) ==
    IF \E i \in DOMAIN d : d[i].key = key
    THEN [i \in DOMAIN d |-> IF d[i].key = key THEN [key |-> key, value |-> value] ELSE d[i]]
    ELSE Append(d, [key |-> key, value |-> value])

\* new_event.pop('frame'): the event without its 'frame' field
pop_frame(ev) == [f \in (DOMAIN ev) \ {"frame"} |-> ev[f]]

\* mutant of is_transient: the faraway test forgotten
is_transient_tackle_only(ev) == ev.event = "tackle"

\* mutant of is_transient: the tackle test forgotten
is_transient_faraway_only(ev) == ev.event = "faraway"

is_transient(ev) == ev.event = "faraway" \/ ev.event = "tackle"

\* ---------------------------------------------------------------- episodes
\* Where a player stands when he is not placed on the ball: the defending
\* team (0..10) in one row, the attacking team (11..21) in another, every
\* spot inside the pitch and more than MinFailedPassLength from every ball
\* position below.
Home(p) ==
    IF p < TeamSplit THEN <<3000 + 150 * p, 2200>>
                     ELSE <<3000 + 150 * (p - TeamSplit), 2600>>

\* A frame: the players of DOMAIN at placed where `at` says, the others at
\* home, then the ball.
MkFrame(ball, at) ==
    [i \in 1 .. (2 * NumPlayers + 2) |->
        IF i > 2 * NumPlayers
        THEN ball[i - 2 * NumPlayers]
        ELSE LET q == (i - 1) \div 2
                 xy == IF q \in DOMAIN at THEN at[q] ELSE Home(q)
             IN  xy[((i - 1) % 2) + 1]]

Nobody == [q \in {} |-> <<0, 0>>]

\* ball positions: midfield, 2 m and 4 m further on one line; 0.5 m inside the
\* sideline; past
\* the sideline 1 m, exactly 1.5 m and 2 m from NearSide; past the goal line
\* beside the goal but within the goal area's width, and far from the goal;
\* inside the goal area
Mid == <<4000, 1000>>
Mid2 == <<4200, 1000>>
Mid3 == <<4400, 1000>>
NearSide == <<4000, 3450>>
Side == <<4000, 3550>>
SideEdge == <<4090, 3570>>
Side2 == <<4160, 3570>>
GoalWide == <<5300, 600>>
GoalOut == <<5300, 2000>>
Area == <<5000, 300>>

\* past the sideline, as far from player 7's place as from player 8's (and
\* from player 18's as from player 19's)
SideTie == <<4125, 3570>>

Frames ==
    { MkFrame(Mid, 5 :> Mid),
      MkFrame(Mid, 0 :> Mid),
      MkFrame(Mid, 15 :> Mid),
      MkFrame(Mid2, 7 :> Mid2),
      MkFrame(Mid2, 10 :> Mid2),
      MkFrame(Mid3, 7 :> Mid3),
      MkFrame(Mid3, Nobody),
      MkFrame(NearSide, 5 :> NearSide),
      MkFrame(Side, Nobody),
      MkFrame(SideEdge, Nobody),
      MkFrame(Side2, Nobody),
      MkFrame(GoalWide, Nobody),
      MkFrame(GoalOut, Nobody),
      MkFrame(Area, 11 :> Area) }

Episodes == UNION { [1 .. n -> Frames] : n \in 0 .. MaxLen }

\* The episodes over fewer frames: a possessor, a teammate and an opponent
\* on the ball, the ball alone in play, near and past the sideline (once
\* with two players equally close), and past the goal line.
ScanFrames ==
    { MkFrame(Mid, 5 :> Mid),
      MkFrame(Mid, 15 :> Mid),
      MkFrame(Mid2, 7 :> Mid2),
      MkFrame(Mid3, Nobody),
      MkFrame(NearSide, 5 :> NearSide),
      MkFrame(Side2, Nobody),
      MkFrame(SideTie, Nobody),
      MkFrame(GoalWide, Nobody) }

\* the episodes of at most n frames over ScanFrames
ScanEpisodes(n) == UNION { [1 .. m -> ScanFrames] : m \in 0 .. n }

\* Longer episodes, over a narrower choice.  Player 5 has the ball at Mid on
\* frame 0; on every later frame the ball has moved by d since the frame
\* before and player `who` (None: nobody) stands on it: 2 m along the pitch
\* with nobody, 2 m along the pitch with player 7, at rest with player 7, or
\* 2 m across the pitch with nobody.
Straight == <<200, 0>>

Moves ==
    { [d |-> Straight, who |-> None],
      [d |-> Straight, who |-> 7],
      [d |-> <<0, 0>>, who |-> 7],
      [d |-> <<0, -200>>, who |-> None] }

\* the ball after the first i moves from b0
RECURSIVE BallAfter(_, _, _)
BallAfter(b0, ms, i) ==
    IF i = 0 THEN b0
    ELSE LET b == BallAfter(b0, ms, i - 1)
         IN  <<b[1] + ms[i].d[1], b[2] + ms[i].d[2]>>

\* the episode the moves ms describe when player p0 has the ball at b0 on
\* frame 0
Drive(b0, p0, ms) ==
    [i \in 1 .. (Len(ms) + 1) |->
        IF i = 1 THEN MkFrame(b0, p0 :> b0)
        ELSE LET b == BallAfter(b0, ms, i - 1)
             IN  MkFrame(b, IF ms[i - 1].who = None THEN Nobody
                             ELSE ms[i - 1].who :> b)]

\* the driven episodes of at most n frames on which the ball leaves its
\* velocity at most kinks times
LongEpisodes(n, kinks) ==
    { Drive(Mid, 5, ms) :
        ms \in { m \in UNION { [1 .. k -> Moves] : k \in 0 .. (n - 1) } :
                    Cardinality({i \in DOMAIN m : m[i].d # Straight}) <= kinks } }

\* Episodes in front of a goal.  Player 5 or the goalkeeper 0 has the ball at
\* ShotStart on frame 0; the ball then moves 1 m a frame towards the goal
\* line, except on at most `kinks` moves, on which it rests or jumps 5 m
\* across the pitch as well; the opponent 15 stands on it on one frame.
ShotStart == <<4500, 300>>

Ahead == <<100, 0>>

ShotPaths(n, kinks) ==
    { m \in UNION { [1 .. k -> {Ahead, <<100, 500>>, <<0, 0>>}] : k \in 0 .. (n - 1) } :
          Cardinality({i \in DOMAIN m : m[i] # Ahead}) <= kinks }

ShotEpisodes(n, kinks) ==
    UNION { { Drive(ShotStart, p0,
                    [i \in DOMAIN m |-> [d |-> m[i], who |-> IF i = j THEN 15 ELSE None]]) :
                p0 \in {5, 0}, j \in DOMAIN m \cup {0} } :
            m \in ShotPaths(n, kinks) }

\* Episodes along a sideline.  The ball is in play beside the line with
\* player 5 on it or in midfield with nobody near, or past the line: with
\* player 5 on it, alone 2 m from where it was in play, with the opponent 15
\* on it there, or alone 2.4 m further along the line; or it is past the
\* goal line with nobody near.
SideFar == <<4400, 3570>>

OutFrames ==
    { MkFrame(NearSide, 5 :> NearSide),
      MkFrame(Mid3, Nobody),
      MkFrame(Side, 5 :> Side),
      MkFrame(Side2, Nobody),
      MkFrame(Side2, 15 :> Side2),
      MkFrame(SideFar, Nobody),
      MkFrame(GoalWide, Nobody) }

\* the episodes of at most n frames over OutFrames
OutEpisodes(n) == UNION { [1 .. m -> OutFrames] : m \in 0 .. n }

\* ------------------------------------------------------------ state machine
VARIABLES
    episode,        \* self.episode
    current_frame,  \* self.current_frame
    pwb,            \* self.pwb
    prev_pwb,       \* self.prev_pwb
    event_frame,    \* self.event_frame
    events,         \* self.events, as the sequence of its items
    new_event,      \* the local new_event of find_events' inner loop
    pc,             \* where find_events stands
    emitted,        \* how many non-transient events have been stored so far
    output,         \* the event maps find_events has returned, in order
    obtained,       \* compare_events: the dictionary obtained, as its items
    expected,       \* compare_events: the dictionary expected, as its items
    frames,         \* compare_events: the rest of list(expected) to go through
    result,         \* compare_events: the counters
    matched,        \* the pairs <<expected key, obtained key>> matched so far
    given,          \* the two dictionaries as compare_events received them
    cpc,            \* where compare_events stands
    params,         \* the module-level parameters of event_recognition
    sequences,      \* the sequence names of the data and of the labels loaded
    full_info,      \* tune_params_independently: its argument
    param_i,        \* tune_params_independently: the parameter being swept
    value_i,        \* tune_params_independently: the value being tried
    default_value,  \* tune_params_independently: default_value
    rows,           \* tune_params_independently: rows
    saved,          \* the parameters whose csv file has been written
    tpc             \* where tune_params_independently stands

recognizer_vars == <<episode, current_frame, pwb, prev_pwb, event_frame, events,
                     new_event, pc, emitted, output>>

reporting_vars == <<obtained, expected, frames, result, matched, given, cpc>>

tuner_vars == <<params, sequences, full_info, param_i, value_i, default_value,
                rows, saved, tpc>>

vars == <<recognizer_vars, reporting_vars, tuner_vars>>

\* the counters compare_events starts from
NoResult == [true_positive |-> 0, false_positive |-> 0, false_negative |-> 0]

\* the dictionaries an item sequence stands for are not in use
NoDicts == [obtained |-> <<>>, expected |-> <<>>]

\* compare_events is not running
ReportingIdle ==
    /\ obtained = <<>>
    /\ expected = <<>>
    /\ frames = <<>>
    /\ result = NoResult
    /\ matched = <<>>
    /\ given = NoDicts
    /\ cpc = "idle"

\* the module-level parameters of event_recognition as the module defines
\* them: lengths in centimetres, GracePeriodPlayer and GracePeriodBall in
\* frames, MinTrChangeAngle in ten-thousandths of a radian,
\* MinSpeedChangeFactor in hundredths
Defaults ==
    [VicinityThreshold |-> VicinityThreshold,
     GracePeriodPlayer |-> GracePeriodPlayer,
     GracePeriodBall |-> GracePeriodBall,
     MinFailedPassLength |-> MinFailedPassLength,
     MinTrChangeAngle |-> MinTrChangeAngle,
     MinSpeedChangeFactor |-> (100 * MinSpeedChangeFactorNum) \div MinSpeedChangeFactorDen,
     GoalpostDistance |-> GoalpostDistance]

\* tune_params_independently is not running
TunerIdle ==
    /\ params = Defaults
    /\ sequences = [data |-> {}, labels |-> {}]
    /\ full_info = FALSE
    /\ param_i = 0
    /\ value_i = 0
    /\ default_value = None
    /\ rows = <<>>
    /\ saved = {}
    /\ tpc = "idle"

\* EventRecognizer.__init__
Init ==
    /\ episode \in Episodes
    /\ current_frame = 0
    /\ pwb = None
    /\ prev_pwb = None
    /\ event_frame = None
    /\ events = <<>>
    /\ new_event = NoEvent
    /\ pc = "init"
    /\ emitted = 0
    /\ output = <<>>
    /\ ReportingIdle
    /\ TunerIdle

\* find_events is called: self.events = {}
Call ==
    /\ pc = "init"
    /\ events' = <<>>
    /\ emitted' = 0
    /\ pc' = "outer"
    /\ UNCHANGED <<episode, current_frame, pwb, prev_pwb, event_frame, new_event,
                   output>>
    /\ UNCHANGED <<reporting_vars, tuner_vars>>

\* one pass of the main loop up to the inner loop: find_ball_faraway().
\* new_event, which the inner loop assigns before it reads it, is taken to
\* hold no event when the inner loop is entered.
PhaseA ==
    /\ pc = "outer"
    /\ current_frame < Len(episode)
    /\ LET r == find_ball_faraway(episode, current_frame, pwb, prev_pwb, event_frame)
       IN  /\ current_frame' = r.current_frame
           /\ pwb' = r.pwb
           /\ prev_pwb' = r.prev_pwb
           /\ event_frame' = r.event_frame
    /\ new_event' = NoEvent
    /\ pc' = "inner"
    /\ UNCHANGED <<episode, events, emitted, output>>
    /\ UNCHANGED <<reporting_vars, tuner_vars>>

\* mutant of PhaseB: current_frame += 1 placed after the break, so that it
\* is skipped when an event was returned
PhaseB_advance_after_break ==
    /\ pc = "inner"
    /\ current_frame < Len(episode)
    /\ LET r == detect_pass_shot(episode, current_frame, pwb, prev_pwb, event_frame)
       IN  /\ new_event' = r.ev
           /\ pwb' = r.pwb
           /\ IF r.ev # NoEvent
              THEN /\ pc' = "outer"
                   /\ current_frame' = current_frame
                   /\ IF ~is_transient(r.ev)
                      THEN /\ events' = dict_set(events, str(r.ev.frame), pop_frame(r.ev))
                           /\ emitted' = emitted + 1
                      ELSE UNCHANGED <<events, emitted>>
              ELSE /\ pc' = "inner"
                   /\ current_frame' = current_frame + 1
                   /\ UNCHANGED <<events, emitted>>
    /\ UNCHANGED <<episode, prev_pwb, event_frame, output>>
    /\ UNCHANGED <<reporting_vars, tuner_vars>>

\* mutant of PhaseB: the break moved into the branch that stores the event
PhaseB_break_when_stored ==
    /\ pc = "inner"
    /\ current_frame < Len(episode)
    /\ LET r == detect_pass_shot(episode, current_frame, pwb, prev_pwb, event_frame)
       IN  /\ new_event' = r.ev
           /\ pwb' = r.pwb
           /\ current_frame' = current_frame + 1
           /\ IF r.ev # NoEvent /\ ~is_transient(r.ev)
              THEN /\ pc' = "outer"
                   /\ events' = dict_set(events, str(r.ev.frame), pop_frame(r.ev))
                   /\ emitted' = emitted + 1
              ELSE /\ pc' = "inner"
                   /\ UNCHANGED <<events, emitted>>
    /\ UNCHANGED <<episode, prev_pwb, event_frame, output>>
    /\ UNCHANGED <<reporting_vars, tuner_vars>>

\* one pass of the inner loop: detect_pass_shot(), current_frame += 1, and
\* the storing of a non-transient event
PhaseB ==
    /\ pc = "inner"
    /\ current_frame < Len(episode)
    /\ LET r == detect_pass_shot(episode, current_frame, pwb, prev_pwb, event_frame)
       IN  /\ new_event' = r.ev
           /\ pwb' = r.pwb
           /\ current_frame' = current_frame + 1
           /\ IF r.ev # NoEvent
              THEN /\ pc' = "outer"
                   /\ IF ~is_transient(r.ev)
                      THEN /\ events' = dict_set(events, str(r.ev.frame), pop_frame(r.ev))
                           /\ emitted' = emitted + 1
                      ELSE UNCHANGED <<events, emitted>>
              ELSE /\ pc' = "inner"
                   /\ UNCHANGED <<events, emitted>>
    /\ UNCHANGED <<episode, prev_pwb, event_frame, output>>
    /\ UNCHANGED <<reporting_vars, tuner_vars>>

\* the inner loop ends because the episode is exhausted
PhaseBEnd ==
    /\ pc = "inner"
    /\ current_frame >= Len(episode)
    /\ pc' = "outer"
    /\ UNCHANGED <<episode, current_frame, pwb, prev_pwb, event_frame, events,
                   new_event, emitted, output>>
    /\ UNCHANGED <<reporting_vars, tuner_vars>>

\* the main loop ends: return self.events, which the caller keeps
Return ==
    /\ pc = "outer"
    /\ current_frame >= Len(episode)
    /\ pc' = "done"
    /\ output' = Append(output, events)
    /\ UNCHANGED <<episode, current_frame, pwb, prev_pwb, event_frame, events,
                   new_event, emitted>>
    /\ UNCHANGED <<reporting_vars, tuner_vars>>

Next == Call \/ PhaseA \/ PhaseB \/ PhaseBEnd \/ Return

Spec == Init /\ [][Next]_vars

\* mutant of EventRecognizer_init: self.current_frame = 0 forgotten
EventRecognizer_init_keeps_cursor ==
    /\ pc = "done"
    /\ Len(output) < MaxRuns
    /\ current_frame' = current_frame
    /\ pwb' = None
    /\ prev_pwb' = None
    /\ event_frame' = None
    /\ events' = <<>>
    /\ new_event' = NoEvent
    /\ emitted' = 0
    /\ pc' = "init"
    /\ UNCHANGED <<episode, output>>
    /\ UNCHANGED <<reporting_vars, tuner_vars>>

\* EventRecognizer.__init__ once more: after find_events has returned, a new
\* recognizer is constructed on the same episode
EventRecognizer_init ==
    /\ pc = "done"
    /\ Len(output) < MaxRuns
    /\ current_frame' = 0
    /\ pwb' = None
    /\ prev_pwb' = None
    /\ event_frame' = None
    /\ events' = <<>>
    /\ new_event' = NoEvent
    /\ emitted' = 0
    /\ pc' = "init"
    /\ UNCHANGED <<episode, output>>
    /\ UNCHANGED <<reporting_vars, tuner_vars>>

NextRerun == Next \/ EventRecognizer_init

\* EventRecognizer.__init__ on an episode of ScanEpisodes
InitScan ==
    /\ episode \in ScanEpisodes(MaxLen)
    /\ current_frame = 0
    /\ pwb = None
    /\ prev_pwb = None
    /\ event_frame = None
    /\ events = <<>>
    /\ new_event = NoEvent
    /\ pc = "init"
    /\ emitted = 0
    /\ output = <<>>
    /\ ReportingIdle
    /\ TunerIdle

SpecScan == InitScan /\ [][Next]_vars

\* the classifier run again and again on an episode of ScanEpisodes
SpecRerun == InitScan /\ [][NextRerun]_vars

\* mutant of find_events_again: the call starts over from frame 0
find_events_again_from_start ==
    /\ pc = "done"
    /\ Len(output) < MaxRuns
    /\ events' = <<>>
    /\ emitted' = 0
    /\ new_event' = NoEvent
    /\ current_frame' = 0
    /\ pwb' = None
    /\ pc' = "outer"
    /\ UNCHANGED <<episode, prev_pwb, event_frame, output>>
    /\ UNCHANGED <<reporting_vars, tuner_vars>>

\* find_events is called once more on the same recognizer, after it has
\* returned: self.events = {}, and every other field is as the call before
\* left it
find_events_again ==
    /\ pc = "done"
    /\ Len(output) < MaxRuns
    /\ events' = <<>>
    /\ emitted' = 0
    /\ new_event' = NoEvent
    /\ pc' = "outer"
    /\ UNCHANGED <<episode, current_frame, pwb, prev_pwb, event_frame, output>>
    /\ UNCHANGED <<reporting_vars, tuner_vars>>

NextAgain == Next \/ find_events_again

\* find_events called again and again on one recognizer
SpecAgain == InitScan /\ [][NextAgain]_vars

\* EventRecognizer.__init__ on one of the longer episodes
InitLong ==
    /\ episode \in LongEpisodes(MaxLongLen, MaxKinks)
    /\ current_frame = 0
    /\ pwb = None
    /\ prev_pwb = None
    /\ event_frame = None
    /\ events = <<>>
    /\ new_event = NoEvent
    /\ pc = "init"
    /\ emitted = 0
    /\ output = <<>>
    /\ ReportingIdle
    /\ TunerIdle

SpecLong == InitLong /\ [][Next]_vars

\* EventRecognizer.__init__ on one of the episodes in front of a goal
InitShot ==
    /\ episode \in ShotEpisodes(MaxShotLen, MaxKinks)
    /\ current_frame = 0
    /\ pwb = None
    /\ prev_pwb = None
    /\ event_frame = None
    /\ events = <<>>
    /\ new_event = NoEvent
    /\ pc = "init"
    /\ emitted = 0
    /\ output = <<>>
    /\ ReportingIdle
    /\ TunerIdle

SpecShot == InitShot /\ [][Next]_vars

\* EventRecognizer.__init__ on one of the episodes along a sideline
InitOut ==
    /\ episode \in OutEpisodes(MaxOutLen)
    /\ current_frame = 0
    /\ pwb = None
    /\ prev_pwb = None
    /\ event_frame = None
    /\ events = <<>>
    /\ new_event = NoEvent
    /\ pc = "init"
    /\ emitted = 0
    /\ output = <<>>
    /\ ReportingIdle
    /\ TunerIdle

SpecOut == InitOut /\ [][Next]_vars

\* ------------------------------------------------------- result reporting
\* obtained_events.get(fr): the value under fr, or None
dict_get(d, key) ==
    IF \E i \in DOMAIN d : d[i].key = key
    THEN d[CHOOSE i \in DOMAIN d : d[i].key = key].value
    ELSE NoEvent

\* del d[key], for a key the dictionary holds
dict_del(d, key) == SelectSeq(d, LAMBDA it : it.key # key)

\* list(expected): the keys in insertion order
list(d) == [i \in DOMAIN d |-> d[i].key]

\* The frames events are labelled at: three in a row, and one that is two,
\* three and four frames from them.
LabelFrames == {0, 1, 2, 4}

\* int(frame) for the keys find_match can meet
int_frame(frame) ==
    CHOOSE n \in (0 - TimeWindow) .. (4 + TimeWindow) : str(n) = frame

\* adj_frames: str(int_frame + i), str(int_frame - i) for i = 1 .. TimeWindow
adj_frames(frame) ==
    [k \in 1 .. (2 * TimeWindow) |->
        IF k % 2 = 1 THEN str(int_frame(frame) + ((k + 1) \div 2))
                     ELSE str(int_frame(frame) - (k \div 2))]

\* mutant of is_event_found: any event under the frame counts as found
is_event_found_any_value(obtained_events, fr, exp_event) ==
    dict_get(obtained_events, fr) # NoEvent

\* is_event_found(fr), without the deletion
is_event_found(obtained_events, fr, exp_event) ==
    LET obt_event == dict_get(obtained_events, fr)
    IN  obt_event # NoEvent /\ obt_event = exp_event

\* find_match: whether a match was found, where, and obtained_events as the
\* call leaves it
find_match(frame, exp_event, obtained_events) ==
    LET tries == <<frame>> \o adj_frames(frame)
        hits == {k \in DOMAIN tries : is_event_found(obtained_events, tries[k], exp_event)}
    IN  IF hits = {}
        THEN [found |-> FALSE, at |-> "", obtained |-> obtained_events]
        ELSE LET first == CHOOSE k \in hits : \A h \in hits : k <= h
             IN  [found |-> TRUE, at |-> tries[first],
                  obtained |-> dict_del(obtained_events, tries[first])]

\* The events of the dictionaries compared: a pass and a shot.
LabelEvents ==
    { [event |-> "pass", player |-> 5, target |-> 7],
      [event |-> "shot", player |-> 5] }

\* the dictionaries of at most n events at LabelFrames, in every insertion
\* order
LabelDicts(n) ==
    UNION { { [i \in 1 .. m |-> [key |-> str(ks[i]), value |-> vs[i]]] :
                ks \in { s \in [1 .. m -> LabelFrames] :
                            \A i, j \in 1 .. m : i # j => s[i] # s[j] },
                vs \in [1 .. m -> LabelEvents] } :
            m \in 0 .. n }

\* those whose keys increase, as in every map find_events returns
FoundDicts(n) ==
    { d \in LabelDicts(n) :
        \A i, j \in DOMAIN d : i < j => int_frame(d[i].key) < int_frame(d[j].key) }

\* compare_events is called with two dictionaries
InitCompare ==
    /\ episode = <<>>
    /\ current_frame = 0
    /\ pwb = None
    /\ prev_pwb = None
    /\ event_frame = None
    /\ events = <<>>
    /\ new_event = NoEvent
    /\ pc = "idle"
    /\ emitted = 0
    /\ output = <<>>
    /\ obtained \in FoundDicts(MaxEvents)
    /\ expected \in LabelDicts(MaxEvents)
    /\ frames = <<>>
    /\ result = NoResult
    /\ matched = <<>>
    /\ given = [obtained |-> obtained, expected |-> expected]
    /\ cpc = "called"
    /\ TunerIdle

\* compare_events up to its loop: result, and list(expected)
compare_events_entry ==
    /\ cpc = "called"
    /\ result' = NoResult
    /\ frames' = list(expected)
    /\ cpc' = "loop"
    /\ UNCHANGED <<obtained, expected, matched, given>>
    /\ UNCHANGED <<recognizer_vars, tuner_vars>>

\* one pass of the loop of compare_events: find_match for the next frame of
\* list(expected)
compare_events_loop ==
    /\ cpc = "loop"
    /\ frames # <<>>
    /\ LET frame == Head(frames)
           exp_event == dict_get(expected, frame)
           m == find_match(frame, exp_event, obtained)
       IN  /\ obtained' = m.obtained
           /\ IF m.found
              THEN /\ result' = [result EXCEPT !.true_positive = @ + 1]
                   /\ expected' = dict_del(expected, frame)
                   /\ matched' = Append(matched, <<frame, m.at>>)
              ELSE UNCHANGED <<result, expected, matched>>
    /\ frames' = Tail(frames)
    /\ UNCHANGED <<given, cpc>>
    /\ UNCHANGED <<recognizer_vars, tuner_vars>>

\* the end of compare_events: what is left is counted, and result returned
compare_events_return ==
    /\ cpc = "loop"
    /\ frames = <<>>
    /\ result' = [result EXCEPT !.false_negative = @ + Len(expected),
                                !.false_positive = @ + Len(obtained)]
    /\ cpc' = "returned"
    /\ UNCHANGED <<obtained, expected, frames, matched, given>>
    /\ UNCHANGED <<recognizer_vars, tuner_vars>>

NextCompare == compare_events_entry \/ compare_events_loop \/ compare_events_return

SpecCompare == InitCompare /\ [][NextCompare]_vars

\* ------------------------------------------------------- parameter tuning
\* round(x / d) for x >= 0
RoundDiv(x, d) == (2 * x + d) \div (2 * d)

\* round(value, 2) over np.linspace(lo, hi, n), in hundredths; lo and hi are
\* given in ten-thousandths
linspace(lo, hi, n) ==
    [i \in 1 .. n |-> RoundDiv(lo * (n - 1) + (i - 1) * (hi - lo), 100 * (n - 1))]

\* params: the names in the order of the dictionary
ParamNames ==
    <<"GracePeriodPlayer", "VicinityThreshold", "MinFailedPassLength",
      "MinTrChangeAngle", "MinSpeedChangeFactor">>

\* params: the values tried for each name, in the unit Defaults has for it
ParamValues ==
    [GracePeriodPlayer |-> [i \in 1 .. 20 |-> i],
     VicinityThreshold |-> linspace(1000, 30000, 30),
     MinFailedPassLength |-> linspace(5000, 75000, 71),
     MinTrChangeAngle |-> [i \in 1 .. 36 |-> 100 * linspace(1000, Pi4, 36)[i]],
     MinSpeedChangeFactor |-> linspace(11000, 21000, 11)]

\* the names a sequence of the data or of the labels can have
SeqNames == {"sequence_1", "sequence_2"}

\* tune_params_independently is called, with the module as imported; the
\* files load_files will read hold any sequences
InitTuner ==
    /\ episode = <<>>
    /\ current_frame = 0
    /\ pwb = None
    /\ prev_pwb = None
    /\ event_frame = None
    /\ events = <<>>
    /\ new_event = NoEvent
    /\ pc = "idle"
    /\ emitted = 0
    /\ output = <<>>
    /\ ReportingIdle
    /\ params = Defaults
    /\ sequences \in [data : SUBSET SeqNames, labels : SUBSET SeqNames]
    /\ full_info \in BOOLEAN
    /\ param_i = 0
    /\ value_i = 0
    /\ default_value = None
    /\ rows = <<>>
    /\ saved = {}
    /\ tpc = "called"

\* the parameter being swept
param_name == ParamNames[param_i]

\* tune_params_independently up to its loop: params, load_files()
tune_entry ==
    /\ tpc = "called"
    /\ param_i' = 1
    /\ tpc' = "param"
    /\ UNCHANGED <<params, sequences, full_info, value_i, default_value, rows, saved>>
    /\ UNCHANGED <<recognizer_vars, reporting_vars>>

\* the sweep of the next parameter begins: rows = [], default_value
tune_sweep ==
    /\ tpc = "param"
    /\ param_i <= Len(ParamNames)
    /\ rows' = <<>>
    /\ default_value' = params[param_name]
    /\ value_i' = 1
    /\ tpc' = "value"
    /\ UNCHANGED <<params, sequences, full_info, param_i, saved>>
    /\ UNCHANGED <<recognizer_vars, reporting_vars>>

\* the next value is set: setattr(event_recognition, param_name, value)
tune_setattr ==
    /\ tpc = "value"
    /\ value_i <= Len(ParamValues[param_name])
    /\ params' = [params EXCEPT ![param_name] = ParamValues[param_name][value_i]]
    /\ tpc' = "run"
    /\ UNCHANGED <<sequences, full_info, param_i, value_i, default_value, rows, saved>>
    /\ UNCHANGED <<recognizer_vars, reporting_vars>>

\* run_and_compare(data, labels) and the row made of what it returns.
\* do_comparison raises unless the labels have the sequences of the data: its
\* assertion compares the two lengths, and it looks every labelled sequence
\* up in the output.
tune_run_and_compare ==
    /\ tpc = "run"
    /\ IF sequences.data = sequences.labels
       THEN /\ rows' = Append(rows, [name |-> param_name, value |-> params[param_name],
                                     full |-> full_info])
            /\ value_i' = value_i + 1
            /\ tpc' = "value"
       ELSE /\ tpc' = "raised"
            /\ UNCHANGED <<rows, value_i>>
    /\ UNCHANGED <<params, sequences, full_info, param_i, default_value, saved>>
    /\ UNCHANGED <<recognizer_vars, reporting_vars>>

\* mutant of tune_restore: the setattr after the loop over the values left out
tune_restore_left_out ==
    /\ tpc = "value"
    /\ value_i > Len(ParamValues[param_name])
    /\ tpc' = "save"
    /\ UNCHANGED <<params, sequences, full_info, param_i, value_i, default_value, rows, saved>>
    /\ UNCHANGED <<recognizer_vars, reporting_vars>>

\* the values are through: setattr(event_recognition, param_name, default_value)
tune_restore ==
    /\ tpc = "value"
    /\ value_i > Len(ParamValues[param_name])
    /\ params' = [params EXCEPT ![param_name] = default_value]
    /\ tpc' = "save"
    /\ UNCHANGED <<sequences, full_info, param_i, value_i, default_value, rows, saved>>
    /\ UNCHANGED <<recognizer_vars, reporting_vars>>

\* the rows are saved as csv, and the loop goes on to the next parameter
tune_save ==
    /\ tpc = "save"
    /\ saved' = saved \cup {param_name}
    /\ param_i' = param_i + 1
    /\ tpc' = "param"
    /\ UNCHANGED <<params, sequences, full_info, value_i, default_value, rows>>
    /\ UNCHANGED <<recognizer_vars, reporting_vars>>

\* the csv file cannot be opened for writing: open raises
tune_save_raises ==
    /\ tpc = "save"
    /\ tpc' = "raised"
    /\ UNCHANGED <<params, sequences, full_info, param_i, value_i, default_value, rows, saved>>
    /\ UNCHANGED <<recognizer_vars, reporting_vars>>

\* every parameter is through: tune_params_independently returns
tune_return ==
    /\ tpc = "param"
    /\ param_i > Len(ParamNames)
    /\ tpc' = "returned"
    /\ UNCHANGED <<params, sequences, full_info, param_i, value_i, default_value, rows, saved>>
    /\ UNCHANGED <<recognizer_vars, reporting_vars>>

NextTuner ==
    \/ tune_entry
    \/ tune_sweep
    \/ tune_setattr
    \/ tune_run_and_compare
    \/ tune_restore
    \/ tune_save
    \/ tune_save_raises
    \/ tune_return

SpecTuner == InitTuner /\ [][NextTuner]_vars

\* ------------------------------------------------------------ the claims
\* The kinds of event find_events stores.
StoredKinds == {"pass", "failed_pass", "shot"}

\* new_event is an event exactly in the states that follow a pass of the
\* inner loop in which detect_pass_shot returned one; the frame it examined is
ScanFrame == current_frame - 1

Examined == new_event # NoEvent

ScanBall == get_ball_coordinates(episode, ScanFrame)

HasKey(d, key) == \E i \in DOMAIN d : d[i].key = key

\* count_events on one event map: <<total, passes, failed_passes, shots>>
count_events(d) ==
    <<Len(d),
      Cardinality({i \in DOMAIN d : d[i].value.event = "pass"}),
      Cardinality({i \in DOMAIN d : d[i].value.event = "failed_pass"}),
      Cardinality({i \in DOMAIN d : d[i].value.event = "shot"})>>

\* C1: the event map holds only pass, failed_pass and shot events, never a
\* tackle or a faraway marker, so count_events' assertion
\* total == passes + failed_passes + shots holds of it.
C1_OnlyStoredKinds ==
    /\ \A i \in DOMAIN events : events[i].value.event \in StoredKinds
    /\ LET c == count_events(events) IN c[1] = c[2] + c[3] + c[4]

\* C1 witness: a tackle has just been returned and left out of a map that
\* already holds an event.
C1_Witness ==
    /\ new_event.event = "tackle"
    /\ Len(events) >= 1

\* C2: the frame keys of the stored events are strictly increasing in the
\* order of storing, so no key is stored twice, nothing is overwritten and
\* the map holds as many events as were emitted.
C2_KeysIncrease ==
    /\ \A i, j \in DOMAIN events : i < j => int(events[i].key) < int(events[j].key)
    /\ Len(events) = emitted

\* C2 witness: two events have been stored in one run.
C2_Witness == Len(events) >= 2 /\ emitted >= 2

\* C3: whenever detect_pass_shot has returned an event, prev_pwb is a player
\* index; a stored event's player is prev_pwb at the moment it was emitted,
\* and every stored player is in 0..21.
C3_ActingPlayer ==
    /\ Examined => prev_pwb \in Players
    /\ (Examined /\ new_event.event \in StoredKinds) =>
           /\ new_event.player = prev_pwb
           /\ events[Len(events)].value.player = prev_pwb
    /\ \A i \in DOMAIN events : events[i].value.player \in Players

\* C3 witness: a shot (an event with no target) has just been stored for a
\* player after the ball went out.
C3_Witness ==
    /\ Examined
    /\ new_event.event = "shot"
    /\ pwb = None
    /\ prev_pwb \in Players

\* C4: when a pass, failed_pass or shot is emitted pwb differs from prev_pwb;
\* the only outcome returned with pwb = prev_pwb is the faraway marker.
C4_PwbDiffers ==
    /\ (Examined /\ new_event.event \in StoredKinds) => pwb # prev_pwb
    /\ (Examined /\ pwb = prev_pwb) => new_event.event = "faraway"

\* C4 witness: a failed_pass has just been emitted with pwb cleared, the ball
\* being out of bounds.
C4_Witness ==
    /\ Examined
    /\ new_event.event = "failed_pass"
    /\ pwb = None
    /\ prev_pwb # None

\* C5: a stored pass or failed_pass has target # player; a pass's target is
\* the new possessor, a failed_pass's target is the closest teammate of
\* prev_pwb, prev_pwb excluded, to the ball at the examined frame.
C5_TargetDiffers ==
    /\ \A i \in DOMAIN events :
           events[i].value.event \in {"pass", "failed_pass"} =>
               events[i].value.target # events[i].value.player
    /\ (Examined /\ new_event.event = "pass") => new_event.target = pwb
    /\ (Examined /\ new_event.event = "failed_pass") =>
           /\ new_event.target \in Players \ {prev_pwb}
           /\ (new_event.target < TeamSplit) = (prev_pwb < TeamSplit)
           /\ \A q \in Players \ {prev_pwb} :
                  (q < TeamSplit) = (prev_pwb < TeamSplit) =>
                      Dist2(get_player_coordinates(episode, new_event.target, ScanFrame),
                            ScanBall)
                          <= Dist2(get_player_coordinates(episode, q, ScanFrame), ScanBall)

\* C5 witness: the map holds a pass and a failed_pass.
C5_Witness ==
    /\ \E i \in DOMAIN events : events[i].value.event = "pass"
    /\ \E i \in DOMAIN events : events[i].value.event = "failed_pass"

PastSideline(xy) == Abs(xy[2]) > PitchHalfWidth

PastGoalLine(xy) == Abs(xy[1]) > PitchHalfLength

InBounds(xy) == ~PastSideline(xy) /\ ~PastGoalLine(xy)

\* the squared distance the failed-pass/tackle check measures
TravelDist2 == Dist2(get_player_coordinates(episode, prev_pwb, event_frame), ScanBall)

\* the outcome is that of the failed-pass/tackle check
ViaFailedPassCheck ==
    IF TravelDist2 < Sq(MinFailedPassLength)
    THEN new_event.event = "tackle"
    ELSE new_event.event = "failed_pass" /\ new_event.player = prev_pwb

\* new_event has just been stored under the key event_frame
StoredUnderEventFrame ==
    /\ Len(events) >= 1
    /\ events[Len(events)] = [key |-> str(event_frame), value |-> pop_frame(new_event)]

\* C6 as stated: past a goal line and not past a sideline, the outcome is a
\* shot by prev_pwb exactly when |y| < GoalLength / 2 and prev_pwb is no
\* goalkeeper, and otherwise that of the failed-pass/tackle check.
C6_ShotWithinGoalWidth ==
    (Examined /\ PastGoalLine(ScanBall) /\ ~PastSideline(ScanBall)) =>
        IF 2 * Abs(ScanBall[2]) < GoalLength /\ prev_pwb \notin {0, 11}
        THEN new_event.event = "shot" /\ new_event.player = prev_pwb
        ELSE ViaFailedPassCheck

\* C6 amended: past a goal line and not past a sideline, the outcome is a
\* shot by prev_pwb exactly when |y| < GoalAreaY (GoalLength / 2 + 5.5 m) and
\* prev_pwb is neither 0 nor 11, and otherwise that of the failed-pass/tackle
\* check; pwb is cleared either way.
C6_ShotWithinGoalArea ==
    (Examined /\ PastGoalLine(ScanBall) /\ ~PastSideline(ScanBall)) =>
        /\ pwb = None
        /\ IF Abs(ScanBall[2]) < GoalAreaY /\ prev_pwb \notin {0, 11}
           THEN new_event.event = "shot" /\ new_event.player = prev_pwb
           ELSE ViaFailedPassCheck

\* C6 witness: a shot has been emitted for a ball past the goal line beside
\* the goal (|y| >= GoalLength / 2) but within the goal area's width.
C6_Witness ==
    /\ Examined
    /\ PastGoalLine(ScanBall)
    /\ ~PastSideline(ScanBall)
    /\ 2 * Abs(ScanBall[2]) >= GoalLength
    /\ new_event.event = "shot"
    /\ new_event.player = prev_pwb

\* C7: no stored shot has a goalkeeper (0 or 11) as its player.
C7_NoKeeperShot ==
    \A i \in DOMAIN events :
        events[i].value.event = "shot" => events[i].value.player \notin {0, 11}

\* C7 witness: a shot found by trajectory extrapolation (the ball still in
\* bounds, in the goal area) has been stored.
C7_Witness ==
    /\ Examined
    /\ new_event.event = "shot"
    /\ InBounds(ScanBall)
    /\ is_in_goal_area(ScanBall)
    /\ StoredUnderEventFrame

\* C8: past a sideline pwb is cleared and the outcome depends on the distance
\* d from prev_pwb's position at event_frame to the ball only: d >= 1.5 m, a
\* failed_pass by prev_pwb stored under event_frame; d < 1.5 m, a tackle and
\* nothing stored.
C8_Sideline ==
    (Examined /\ PastSideline(ScanBall)) =>
        /\ pwb = None
        /\ IF TravelDist2 >= Sq(MinFailedPassLength)
           THEN /\ new_event.event = "failed_pass"
                /\ new_event.player = prev_pwb
                /\ StoredUnderEventFrame
           ELSE /\ new_event.event = "tackle"
                /\ ~HasKey(events, str(event_frame))

\* C8 witness: the ball left over the sideline 1 m from the possessor's last
\* position: a tackle, and an empty map.
C8_Witness ==
    /\ Examined
    /\ PastSideline(ScanBall)
    /\ TravelDist2 = Sq(100)
    /\ new_event.event = "tackle"
    /\ events = <<>>

\* An excursion from prev_pwb that ended at the examined frame with the ball
\* in bounds throughout, no other player ever within VicinityThreshold of it,
\* and prev_pwb within VicinityThreshold again.
QuietExcursion ==
    /\ Examined
    /\ prev_pwb # None
    /\ event_frame # None
    /\ \A g \in (event_frame + 1) .. ScanFrame :
           /\ InBounds(get_ball_coordinates(episode, g))
           /\ \A q \in Players \ {prev_pwb} : is_ball_faraway(episode, q, g)
    /\ ~is_ball_faraway(episode, prev_pwb, ScanFrame)

\* C9: such an excursion stores no event (every key of the map is older than
\* its event_frame, also while it lasts) and leaves pwb = prev_pwb = P.
C9_ExcursionStoresNothing ==
    /\ QuietExcursion =>
           /\ new_event.event = "faraway"
           /\ pwb = prev_pwb
           /\ new_event.player = prev_pwb
           /\ \A i \in DOMAIN events : int(events[i].key) < event_frame
    /\ (pc = "inner" /\ current_frame < Len(episode)) =>
           \A i \in DOMAIN events : int(events[i].key) < event_frame

\* C9 witness: the ball was away from P for a frame with nobody near, then
\* back with P.
C9_Witness ==
    /\ QuietExcursion
    /\ ScanFrame >= event_frame + 2
    /\ new_event.event = "faraway"

\* the team split of the docstring: 0..10 defending, 11..21 attacking
SameSide(p, q) == (p < TeamSplit) = (q < TeamSplit)

\* C10 as stated: a confirmed change from prev_pwb to N on the other side is
\* never a pass, and outside the goal area ends as the failed-pass/tackle
\* check says; a confirmed change to N on the same side stores a pass by
\* prev_pwb to N under event_frame.
C10_PassIffSameSide ==
    LET n == get_closest_player(episode, ScanFrame)
    IN  (Examined /\ InBounds(ScanBall) /\ n # None /\ n # prev_pwb) =>
            IF SameSide(prev_pwb, n)
            THEN /\ new_event.event = "pass"
                 /\ new_event.player = prev_pwb
                 /\ new_event.target = n
                 /\ StoredUnderEventFrame
            ELSE /\ new_event.event # "pass"
                 /\ ~is_in_goal_area(ScanBall) => ViaFailedPassCheck

\* The last frame of the episode.
LastFrame == Len(episode) - 1

\* player n is within VicinityThreshold of the ball on frame g
Within(n, g) ==
    Dist2(get_player_coordinates(episode, n, g), get_ball_coordinates(episode, g))
        <= Sq(VicinityThreshold)

\* Frame f is about to be examined by detect_pass_shot with the ball in
\* bounds and a candidate (a player other than prev_pwb) in its vicinity.
CandidateAt(f) ==
    /\ pc = "inner"
    /\ f < Len(episode)
    /\ InBounds(get_ball_coordinates(episode, f))
    /\ get_closest_player(episode, f) \notin {None, prev_pwb}

\* the ball's speed or direction changed across the frames f - 1, f, f + 1
BallChangedAround(f) ==
    \/ is_ball_speed_changed(episode, f, f - 1, f + 1)
    \/ is_ball_direction_changed(episode, f, f - 1, f + 1)

\* n stays within VicinityThreshold from f to min(f + GracePeriodPlayer, last)
SustainedControl(n, f) ==
    \A g \in f .. Min(f + GracePeriodPlayer, LastFrame) : Within(n, g)

\* C11: a candidate N at scan frame f is confirmed if f is the last frame,
\* else if the ball's speed or direction changed across f-1..f+1, else
\* exactly when N is within VicinityThreshold of the ball on every frame
\* from f to min(f + GracePeriodPlayer, last frame).  Confirmed, an event is
\* returned and pwb becomes N; not confirmed, no event is returned, nothing
\* is stored, pwb and prev_pwb stay, and the scan goes on at f + 1.
C11_Confirmation ==
    [][CandidateAt(current_frame) =>
         LET f == current_frame
             n == get_closest_player(episode, f)
         IN  IF \/ f = LastFrame
                \/ BallChangedAround(f)
                \/ SustainedControl(n, f)
             THEN /\ new_event' # NoEvent
                  /\ pwb' = n
                  /\ pc' = "outer"
             ELSE /\ new_event' = NoEvent
                  /\ pwb' = pwb
                  /\ prev_pwb' = prev_pwb
                  /\ events' = events
                  /\ current_frame' = f + 1
                  /\ pc' = "inner"]_vars

\* C11 witness: a candidate has just been left unconfirmed although it was
\* within VicinityThreshold from f to f + GracePeriodPlayer - 1: the ball
\* kept its velocity and the candidate was too far on frame
\* f + GracePeriodPlayer only.
C11_Witness ==
    LET f == ScanFrame
        n == get_closest_player(episode, f)
    IN  /\ pc = "inner"
        /\ new_event = NoEvent
        /\ event_frame # None
        /\ f > event_frame
        /\ f + GracePeriodPlayer <= LastFrame
        /\ n \notin {None, prev_pwb}
        /\ ~BallChangedAround(f)
        /\ \A g \in f .. (f + GracePeriodPlayer - 1) : Within(n, g)
        /\ ~Within(n, f + GracePeriodPlayer)
        /\ pwb = prev_pwb

\* C12: every stored event is keyed by the frame just before the ball left
\* the acting player's vicinity: on the key frame the player is within
\* VicinityThreshold of the ball, on the next frame farther than that; the
\* key is event_frame at the moment of storing and is strictly smaller than
\* the scan frame that decided the event.
C12_KeyIsLastFrameInVicinity ==
    /\ \A i \in DOMAIN events :
           LET k == int(events[i].key)
               p == events[i].value.player
           IN  /\ 0 <= k
               /\ k + 1 <= LastFrame
               /\ Within(p, k)
               /\ ~Within(p, k + 1)
    /\ (Examined /\ new_event.event \in StoredKinds) =>
           /\ StoredUnderEventFrame
           /\ new_event.frame = event_frame
           /\ event_frame < ScanFrame

\* C12 witness: an event has been stored that was decided two frames after
\* its key frame, one frame after the ball left the player's vicinity.
C12_Witness ==
    /\ Examined
    /\ new_event.event \in StoredKinds
    /\ StoredUnderEventFrame
    /\ Within(prev_pwb, event_frame)
    /\ ~Within(prev_pwb, event_frame + 1)
    /\ ScanFrame = event_frame + 2

\* How far find_events is from returning: the frames left, then the place in
\* the loops.
Variant ==
    5 * (Len(episode) - current_frame)
      + (CASE pc = "init" -> 4
           [] pc = "outer" /\ current_frame < Len(episode) -> 3
           [] pc = "inner" -> 2
           [] pc = "outer" /\ current_frame >= Len(episode) -> 1
           [] pc = "done" -> 0)

\* Some step of find_events can be taken: the guards of Call, of PhaseA and
\* Return, and of PhaseB and PhaseBEnd.
CanStep ==
    \/ pc = "init"
    \/ pc = "outer" /\ (current_frame < Len(episode) \/ current_frame >= Len(episode))
    \/ pc = "inner" /\ (current_frame < Len(episode) \/ current_frame >= Len(episode))

\* C13: find_events terminates on every episode: until it has returned a
\* step can be taken and every step brings it nearer to returning;
\* current_frame never decreases and never exceeds len(episode), every pass
\* of the inner loop advances it, and it equals len(episode) when
\* find_events returns.
C13_Terminates ==
    /\ [](0 <= current_frame /\ current_frame <= Len(episode))
    /\ [](Variant >= 0 /\ (Variant = 0 <=> pc = "done"))
    /\ [](pc # "done" => CanStep)
    /\ [][Variant' < Variant]_vars
    /\ [][current_frame' >= current_frame]_vars
    /\ [][(pc = "inner" /\ current_frame < Len(episode)) =>
             current_frame' > current_frame]_vars
    /\ [](pc = "done" => current_frame = Len(episode))

\* C13 witness: find_events has returned from an episode of the greatest
\* length after storing an event, the faraway frame having been found more
\* than once.
C13_Witness ==
    /\ pc = "done"
    /\ Len(episode) = MaxLen
    /\ current_frame = Len(episode)
    /\ emitted >= 1
    /\ event_frame >= 1

\* The frame numbers of the episode.
FrameIndices == 0 .. LastFrame

\* the divisors frame_b - frame_a of the two calculate_ball_speed calls that
\* is_ball_speed_changed makes at frame f
SpeedSpans(f) ==
    { calculate_ball_speed(episode, Max(f - GracePeriodBall, 0), f)[2],
      calculate_ball_speed(episode, f, Min(f + GracePeriodBall, LastFrame))[2] }

\* the frames is_possession_changed reads at frame f when f is not the last
PossessionFramesRead(f) ==
    {Max(f - GracePeriodBall, 0), f, Min(f + GracePeriodBall, LastFrame)}
        \cup (f .. Min(f + GracePeriodPlayer, LastFrame))

\* what find_ball_faraway is about to read is there: a tracked player once
\* find_possession_frame has run, unless the episode is exhausted by then
FarawayReadsDefined ==
    LET found == IF pwb = None
                 THEN find_possession_frame(episode, current_frame, pwb)
                 ELSE <<current_frame, pwb>>
    IN  /\ 0 <= current_frame
        /\ found[1] < Len(episode) => found[2] \in Players

\* what detect_pass_shot is about to read at current_frame is there
DetectReadsDefined ==
    LET f == current_frame
        ball_xy == get_ball_coordinates(episode, f)
        n == get_closest_player(episode, f)
    IN  /\ f \in FrameIndices
        /\ ~InBounds(ball_xy) =>
               /\ prev_pwb \in Players
               /\ event_frame \in FrameIndices
        /\ (InBounds(ball_xy) /\ n # None) => prev_pwb \in Players
        /\ CandidateAt(f) =>
               /\ n \in Players
               /\ f # LastFrame =>
                      /\ 0 \notin SpeedSpans(f)
                      /\ PossessionFramesRead(f) \subseteq FrameIndices
               /\ is_possession_changed(episode, f, n) =>
                      /\ event_frame \in FrameIndices
                      /\ (~is_same_team(prev_pwb, n) /\ is_in_goal_area(ball_xy)) =>
                             /\ TrajectoryScale(f) # 0
                             /\ Max(0, f - TrajectoryBack) \in FrameIndices

\* C14: no operation of find_events fails: every frame read is a frame of
\* the episode, every player whose coordinates are read is a player (not
\* None), and no frame span used as a divisor is zero, in calculate_ball_speed
\* and in get_ball_trajectory, also for a candidate at frame 1 or at the last
\* frame.
C14_NoFailure ==
    /\ (pc = "outer" /\ current_frame < Len(episode)) => FarawayReadsDefined
    /\ (pc = "inner" /\ current_frame < Len(episode)) => DetectReadsDefined

\* C14 witness: an opponent is on the ball in the goal area at frame 1, which
\* is not the last frame: both speeds and the trajectory are about to be
\* computed from a single frame back.
C14_Witness ==
    LET n == get_closest_player(episode, 1)
    IN  /\ current_frame = 1
        /\ LastFrame > 1
        /\ CandidateAt(1)
        /\ is_possession_changed(episode, 1, n)
        /\ ~is_same_team(prev_pwb, n)
        /\ is_in_goal_area(get_ball_coordinates(episode, 1))
        /\ SpeedSpans(1) = {1}
        /\ TrajectoryScale(1) = 1

\* The inner loop has ended (and the next find_ball_faraway has not begun).
PhaseBOver == pc = "outer" /\ current_frame > 0

\* every event stored before the last one was stored before event_frame
OneStoredSince ==
    /\ StoredUnderEventFrame
    /\ \A i \in 1 .. (Len(events) - 1) : int(events[i].key) < event_frame

\* no stored event is as late as event_frame
NoneStoredSince == \A i \in DOMAIN events : int(events[i].key) < event_frame

\* C15 as stated: when the inner loop has ended, exactly one non-transient
\* event has been stored during it or the episode is exhausted.
C15_StoredOrExhausted ==
    PhaseBOver =>
        \/ current_frame >= Len(episode)
        \/ /\ Examined
           /\ new_event.event \in StoredKinds
           /\ OneStoredSince

\* C15 amended: the inner loop ends as soon as detect_pass_shot returns an
\* outcome, and only in one of three ways: exactly one non-transient event
\* has been stored during it, a transient outcome (faraway or tackle) was
\* returned and nothing was stored during it, or the episode is exhausted;
\* while it lasts no outcome has been returned.
C15_OneOutcomeOrExhausted ==
    /\ PhaseBOver =>
           \/ /\ Examined
              /\ new_event.event \in StoredKinds
              /\ OneStoredSince
           \/ /\ Examined
              /\ new_event.event \in {"faraway", "tackle"}
              /\ NoneStoredSince
           \/ /\ ~Examined
              /\ current_frame >= Len(episode)
    /\ pc = "inner" => ~Examined

\* C15 witness: the inner loop has ended on a tackle by an opponent with
\* frames left and nothing stored.
C15_Witness ==
    /\ PhaseBOver
    /\ Examined
    /\ new_event.event = "tackle"
    /\ ~SameSide(prev_pwb, pwb)
    /\ current_frame < Len(episode)
    /\ events = <<>>

SideOf(p) ==
    IF p < TeamSplit THEN 0 .. (TeamSplit - 1) ELSE TeamSplit .. (NumPlayers - 1)

\* squared distance of player q to the ball, both at the examined frame
ScanDist2(q) == Dist2(get_player_coordinates(episode, q, ScanFrame), ScanBall)

\* C17: the target of a stored failed_pass is one of the 11 players on the
\* acting player's side (0..10 for a player below 11, 11..21 otherwise), is
\* not the acting player, and is the closest of them to the ball at the scan
\* frame, the lowest index among equally close ones.
C17_FailedPassTarget ==
    /\ \A i \in DOMAIN events :
           events[i].value.event = "failed_pass" =>
               events[i].value.target \in SideOf(events[i].value.player)
                                              \ {events[i].value.player}
    /\ (Examined /\ new_event.event = "failed_pass") =>
           LET t == new_event.target
               mates == SideOf(new_event.player) \ {new_event.player}
           IN  /\ t \in mates
               /\ \A q \in mates :
                      /\ ScanDist2(t) <= ScanDist2(q)
                      /\ ScanDist2(t) = ScanDist2(q) => t <= q

\* C17 witness: a failed_pass has been stored with two teammates equally
\* close to the ball, and closer than the rest.
C17_Witness ==
    /\ Examined
    /\ new_event.event = "failed_pass"
    /\ StoredUnderEventFrame
    /\ \E q \in SideOf(new_event.player) \ {new_event.player, new_event.target} :
           ScanDist2(q) = ScanDist2(new_event.target)

\* C18: is_same_team(p1, p2) is true exactly when p1 and p2 are on the same
\* side, 0..10 being one team and 11..21 the other, the split that
\* get_closest_teammate uses (prev_pwb < 11), and it is symmetric.
\* It is stated where is_same_team is called: whenever detect_pass_shot is
\* about to run.
C18_SameTeamIsTeamSplit ==
    (pc = "inner" /\ current_frame < Len(episode)) =>
        \A p1, p2 \in Players :
            /\ is_same_team(p1, p2) = (p2 \in SideOf(p1))
            /\ is_same_team(p1, p2) = is_same_team(p2, p1)

\* The frames the velocity is taken over at the examined frame.
ShotSpan == Min(TrajectoryBack, ScanFrame)

\* ShotSpan times the i-th point reached from the ball's position at the
\* examined frame by adding i times the mean velocity of the last ShotSpan
\* frames
ProjectedPoint(i) ==
    LET now == ScanBall
        before == get_ball_coordinates(episode, ScanFrame - ShotSpan)
    IN  <<ShotSpan * now[1] + i * (now[1] - before[1]),
          ShotSpan * now[2] + i * (now[2] - before[2])>>

ProjectedInside(i) ==
    /\ Abs(ProjectedPoint(i)[1]) <= PitchHalfLength * ShotSpan
    /\ Abs(ProjectedPoint(i)[2]) <= PitchHalfWidth * ShotSpan

\* point i belongs to the trajectory: no earlier point is outside the pitch
Projected(i) ==
    /\ i \in 1 .. TrajectoryForward
    /\ \A j \in 1 .. (i - 1) : ProjectedInside(j)

\* get_ball_trajectory returns the points the claim describes
TrajectoryAsProjected ==
    LET traj == get_ball_trajectory(episode, ScanFrame)
    IN  /\ Len(traj) \in 1 .. TrajectoryForward
        /\ \A i \in 1 .. TrajectoryForward : i \in DOMAIN traj <=> Projected(i)
        /\ \A i \in DOMAIN traj : traj[i] = ProjectedPoint(i)

\* Some point of the trajectory is on or past the goal line with
\* |y| < halfwidth2 / 2.
CrossesGoalLineWithin(halfwidth2) ==
    \E i \in 1 .. TrajectoryForward :
        /\ Projected(i)
        /\ Abs(ProjectedPoint(i)[1]) >= PitchHalfLength * ShotSpan
        /\ 2 * Abs(ProjectedPoint(i)[2]) < halfwidth2 * ShotSpan

\* detect_pass_shot has just confirmed, with the ball in bounds, a change
\* from prev_pwb to the player n
ConfirmedChangeTo(n) ==
    /\ Examined
    /\ InBounds(ScanBall)
    /\ n = get_closest_player(episode, ScanFrame)
    /\ n \notin {None, prev_pwb}

DetectInvoked == pc = "inner" /\ current_frame < Len(episode)

\* C20: every time detect_pass_shot is invoked the recognizer is in the
\* faraway state: pwb equals prev_pwb and is a player, who was found as the
\* possessor at an earlier frame; event_frame is set, with
\* 0 <= event_frame < current_frame < len(episode), and the ball is far from
\* pwb at the frame after event_frame.  So detect_pass_shot is never invoked
\* at frame 0, nor before a first possessor has been found.
C20_FarawayState ==
    DetectInvoked =>
        /\ pwb = prev_pwb
        /\ pwb # None /\ pwb \in Players
        /\ event_frame # None
        /\ 0 <= event_frame
        /\ event_frame < current_frame
        /\ current_frame < Len(episode)
        /\ current_frame # 0
        /\ is_ball_faraway(episode, pwb, event_frame + 1)
        /\ \E f \in 0 .. (current_frame - 1) : get_closest_player(episode, f) = pwb

\* detect_pass_shot is invoked again in the same inner loop, after an event
\* was already stored and a new possessor took over
C20_Witness ==
    /\ DetectInvoked
    /\ current_frame > event_frame + 1
    /\ emitted > 0
    /\ event_frame > 0

\* the ball is past a sideline or a goal line on frame f
OutOfBounds(f) == ~InBounds(get_ball_coordinates(episode, f))

\* the frame a stored event is kept under
KeyFrame(i) == CHOOSE e \in -1 .. Len(episode) : str(e) = events[i].key

\* detect_pass_shot returns an out-of-bounds outcome: pwb is cleared,
\* prev_pwb is kept, and an event (stored or transient) is returned
OutcomeClearsPwb ==
    (DetectInvoked /\ OutOfBounds(current_frame)) =>
        /\ pwb' = None
        /\ prev_pwb' = prev_pwb
        /\ new_event' # NoEvent
        /\ pc' = "outer"

\* events are stored by detect_pass_shot's caller only, which does not run
\* while pwb is None
NoEventWithoutPwb ==
    /\ (events' # events \/ emitted' # emitted) => (pc = "init" \/ DetectInvoked)
    /\ (pwb = None /\ pc # "init") => events' = events /\ emitted' = emitted

\* once pwb is None, detect_pass_shot is next invoked only after a player
\* was found within VicinityThreshold of the ball on a frame f not before
\* current_frame (so later than an out-of-bounds frame examined before),
\* stayed so up to event_frame, and the ball has left the player's vicinity
\* on the frame after it
RecoveryFirst ==
    (pwb = None /\ DetectInvoked') =>
        /\ pwb' \in Players
        /\ current_frame' = event_frame' + 1
        /\ is_ball_faraway(episode, pwb', current_frame')
        /\ \E f \in current_frame .. event_frame' :
               /\ get_closest_player(episode, f) = pwb'
               /\ \A g \in f .. event_frame' : ~is_ball_faraway(episode, pwb', g)

\* find_ball_faraway (Phase A) emits nothing, whatever the frames it passes:
\* the ball is within pwb's vicinity on each of them from the frame of
\* possession on, in bounds or not
PhaseAIsSilent ==
    (pc = "outer" /\ pc' = "inner") =>
        /\ events' = events
        /\ emitted' = emitted
        /\ new_event' = NoEvent
        /\ pwb # None =>
               \A g \in current_frame .. (current_frame' - 1) :
                   ~is_ball_faraway(episode, pwb, g)

\* the parts of C21 about the fields and the recovery
OutOfBoundsRecovery ==
    /\ []((Examined /\ pc = "outer" /\ OutOfBounds(ScanFrame)) => pwb = None)
    /\ [](pwb = None => ~DetectInvoked)
    /\ [][OutcomeClearsPwb]_vars
    /\ [][NoEventWithoutPwb]_vars
    /\ [][RecoveryFirst]_vars
    /\ [][PhaseAIsSilent]_vars

\* two stored events were both emitted at frames of one run of out-of-bounds
\* frames: the frames from the one after the first event's key to the one
\* after the second event's key are all out of bounds (detect_pass_shot
\* returns an outcome on the first out-of-bounds frame it examines)
TwoEventsInOneRun(i, j) ==
    /\ KeyFrame(i) < KeyFrame(j)
    /\ KeyFrame(j) + 1 <= LastFrame
    /\ \A g \in (KeyFrame(i) + 1) .. (KeyFrame(j) + 1) : OutOfBounds(g)

\* C21 as stated: after an out-of-bounds outcome pwb is None and prev_pwb
\* unchanged; no event is emitted before a player was found within
\* VicinityThreshold of the ball at a later frame and the ball left that
\* player's vicinity; Phase A emits nothing for a ball that is out of bounds
\* within the possessor's vicinity; and a ball that stays out of bounds over
\* consecutive frames yields at most one event.
C21_OneEventPerOutOfBoundsRun ==
    /\ OutOfBoundsRecovery
    /\ [](\A i, j \in DOMAIN events : ~TwoEventsInOneRun(i, j))

\* C21: after an out-of-bounds outcome pwb is None and prev_pwb unchanged; no
\* event is emitted before a player was found within VicinityThreshold of
\* the ball at a later frame and the ball left that player's vicinity; Phase
\* A emits nothing for a ball that is out of bounds within the possessor's
\* vicinity; and a ball that stays out of bounds over consecutive frames
\* yields a second event only when a player was within VicinityThreshold of
\* it, out of bounds, on a frame after the first outcome, the second event
\* being that player's.
C21_OneEventUnlessPlayerNearby ==
    /\ OutOfBoundsRecovery
    /\ [](\A i, j \in DOMAIN events :
             TwoEventsInOneRun(i, j) =>
                 \E f \in (KeyFrame(i) + 2) .. KeyFrame(j) :
                     /\ OutOfBounds(f)
                     /\ get_closest_player(episode, f) = events[j].value.player)

\* C21 witness: the ball left its possessor over a line with nobody near it
\* (a failed pass or a shot was stored and pwb cleared), then another player
\* was found on the ball, the ball left that player, and detect_pass_shot is
\* about to be invoked again.
C21_Witness ==
    /\ DetectInvoked
    /\ emitted = 1
    /\ \E k \in 1 .. (event_frame - 1) :
           /\ OutOfBounds(k)
           /\ get_closest_player(episode, k) = None
           /\ KeyFrame(1) = k - 1
           /\ get_closest_player(episode, k - 1) # pwb
           /\ get_closest_player(episode, event_frame) = pwb

\* find_events has returned at least once
Returned == Len(output) >= 1

\* C22: find_events resets the events map only.  After a find_events call
\* has returned, a further call on the same recognizer scans no frame
\* (neither find_ball_faraway nor detect_pass_shot runs: the main loop's test
\* fails at once), leaves current_frame, pwb, prev_pwb and event_frame as
\* they were, and returns an empty map.
C22_SecondCallIsEmpty ==
    /\ [][Returned => /\ UNCHANGED <<current_frame, pwb, prev_pwb, event_frame>>
                      /\ pc' # "inner"
                      /\ events' = <<>>]_vars
    /\ [](Returned => current_frame = Len(episode) /\ pc \in {"done", "outer"})
    /\ [](\A i \in DOMAIN output : i >= 2 => output[i] = <<>>)
    /\ []((pc = "done" /\ Len(output) >= 2) => events = <<>>)

\* C22 witness: the first call stored an event and left a possessor; the
\* second call has returned an empty map and the cursor is where the first
\* call left it.
C22_Witness ==
    /\ pc = "done"
    /\ Len(output) = 2
    /\ output[1] # <<>>
    /\ output[2] = <<>>
    /\ pwb # None
    /\ event_frame # None
    /\ current_frame = Len(episode)

\* the place of an offset in the order 0, +1, -1, +2, -2, +3, -3
OffsetRank(d) == IF d = 0 THEN 0 ELSE IF d > 0 THEN 2 * d - 1 ELSE 0 - 2 * d

\* the items of obtained that can match the expected event under frame: an
\* identical value at a key within TimeWindow frames
Candidates(frame) ==
    { i \in DOMAIN obtained :
        /\ obtained[i].value = dict_get(expected, frame)
        /\ Abs(int_frame(obtained[i].key) - int_frame(frame)) <= TimeWindow }

\* a sequence of items without those whose key is in keys
Without(d, keys) == SelectSeq(d, LAMBDA it : it.key \notin keys)

\* one pass of compare_events' loop: with no candidate nothing changes; else
\* the candidate first in the order of offsets is matched, and the pair is
\* deleted from the two dictionaries
MatchStep ==
    (cpc = "loop" /\ frames # <<>>) =>
        LET frame == Head(frames)
        IN  IF Candidates(frame) = {}
            THEN /\ UNCHANGED <<obtained, expected, matched>>
                 /\ result' = result
            ELSE \E i \in Candidates(frame) :
                    /\ \A j \in Candidates(frame) :
                           OffsetRank(int_frame(obtained[i].key) - int_frame(frame))
                             <= OffsetRank(int_frame(obtained[j].key) - int_frame(frame))
                    /\ matched' = Append(matched, <<frame, obtained[i].key>>)
                    /\ obtained' = Without(obtained, {obtained[i].key})
                    /\ expected' = Without(expected, {frame})
                    /\ result'.true_positive = result.true_positive + 1

\* C23: compare_events matches each expected event to at most one obtained
\* event and each obtained event to at most one expected event; a match is
\* an identical value at a key within TimeWindow frames, the offsets tried in
\* the order 0, +1, -1, +2, -2, +3, -3; the matched entries, and no others,
\* are deleted from the two dictionaries; on return true_positive +
\* false_negative is the size expected had and true_positive +
\* false_positive the size obtained had.
C23_CompareEvents ==
    /\ [][MatchStep]_vars
    /\ [](\A a, b \in DOMAIN matched :
             a # b => matched[a][1] # matched[b][1] /\ matched[a][2] # matched[b][2])
    /\ [](\A a \in DOMAIN matched :
             /\ dict_get(given.expected, matched[a][1]) # NoEvent
             /\ dict_get(given.expected, matched[a][1]) = dict_get(given.obtained, matched[a][2])
             /\ Abs(int_frame(matched[a][1]) - int_frame(matched[a][2])) <= TimeWindow)
    /\ [](cpc # "called" =>
             /\ expected = Without(given.expected, {matched[a][1] : a \in DOMAIN matched})
             /\ obtained = Without(given.obtained, {matched[a][2] : a \in DOMAIN matched})
             /\ result.true_positive = Len(matched))
    /\ [](cpc = "returned" =>
             /\ result.true_positive + result.false_negative = Len(given.expected)
             /\ result.true_positive + result.false_positive = Len(given.obtained)
             /\ result.false_negative = Len(expected)
             /\ result.false_positive = Len(obtained))

\* C23 witness: compare_events has returned; one expected event was matched
\* to an obtained event one frame later although one a frame earlier had the
\* same value, and one event is left in each dictionary.
C23_Witness ==
    /\ cpc = "returned"
    /\ result = [true_positive |-> 1, false_positive |-> 1, false_negative |-> 1]
    /\ int_frame(matched[1][2]) = int_frame(matched[1][1]) + 1
    /\ \E i \in DOMAIN obtained :
           /\ int_frame(obtained[i].key) = int_frame(matched[1][1]) - 1
           /\ obtained[i].value = dict_get(given.expected, matched[1][1])

\* the module-level parameters that differ from the module's defaults
Differing == {n \in DOMAIN params : params[n] # Defaults[n]}

\* C24: tune_params_independently sweeps one parameter at a time.  During
\* every run_and_compare call no parameter but the one being swept differs
\* from its default, and that one has the value being tried; once the sweep
\* of a parameter is through (its csv being saved, the next sweep about to
\* begin, the function returned) every parameter has its default value.
C24_OneParameterAtATime ==
    /\ (tpc = "run") =>
           /\ Differing \subseteq {param_name}
           /\ params[param_name] = ParamValues[param_name][value_i]
           /\ \A n \in saved : n # param_name
    /\ (tpc \in {"save", "param", "returned"}) => Differing = {}
    /\ (tpc = "returned") => saved = {ParamNames[i] : i \in DOMAIN ParamNames}

\* C24 witness: run_and_compare is running on the last value of the second
\* parameter, which differs from its default, after the sweep of the first
\* parameter was saved.
C24_Witness ==
    /\ tpc = "run"
    /\ param_i = 2
    /\ value_i = Len(ParamValues[param_name])
    /\ Differing = {"VicinityThreshold"}
    /\ saved = {"GracePeriodPlayer"}
    /\ Len(rows) = value_i - 1

====
